---- MODULE Spec2Model ----
(***************************************************************************)
(* Board engine of the hex rock-paper-scissors agents                      *)
(* (goodthrowtwodeep.py; oldman.py and random.py carry the same Board).    *)
(*                                                                         *)
(* A token is a one-letter string: "R" "P" "S" belong to upper,            *)
(* "r" "p" "s" to lower.  A hex is a pair <<r, q>>.  An action is a        *)
(* triple <<"THROW", s, x>>, <<"SLIDE", x, y>> or <<"SWING", x, y>>.       *)
(* A Board object is the record [board, throws, nturns].                   *)
(***************************************************************************)
EXTENDS Integers, Sequences, FiniteSets, TLC

VARIABLES
    board,      \* self.board of the authoritative Board: hex -> list of tokens
    throws,     \* self.throws: colour -> number of throws made
    nturns,     \* self.nturns
    call,       \* the operation performed by the last step, with its arguments
    raised,     \* the exception the last operation ended with, or "none"
    ret,        \* the pair returned by the last Board.update / _BATTLE
    frames,     \* the search copies alive in Player.action, root's child first
    symbols,    \* the token list handed to _BATTLE (battle specification)
    survivors,  \* the token list _BATTLE returned (battle specification)
    mirror,     \* the Board held by the agent of the other side (lower)
    hex,        \* the hex handed to _ADJACENT (adjacency specification)
    adjacent,   \* the set _ADJACENT returned (adjacency specification)
    agent,      \* self.colour of the agent whose action() is followed
    pc,         \* where its action() is: idle, search, minimax, returned
    stack,      \* its list of frames (node, path, score); scores are doubled
    maxmin,     \* its best leaf score: << >> for None, else <<score>>
    good_paths, \* its list of the leaf paths with that score
    chosen,     \* the action its action() returned
    infe,       \* the loop iterations of its last one_step_infe call
    leaves,     \* the leaves <<path, score>> its search has popped so far
    root        \* the locals of the root call of minimax (goodthrowtwodeep.py)

battleVars == <<symbols, survivors>>
hexVars == <<hex, adjacent>>
searchVars == <<pc, stack, maxmin, good_paths, chosen, infe, leaves>>

vars == <<board, throws, nturns, call, raised, ret, frames, mirror, agent,
          battleVars, hexVars, searchVars, root>>

----------------------------------------------------------------------------
(* Bounds of the model and constants of the program *)

\* Calls of Board.update explored after the opening.
FreeTurns == 3
\* Longest token list handed to _BATTLE in the battle specification.
MaxStack == 4
\* Calls of Board.update explored after the opening of the depth-first game.
DfsFreeTurns == 1
\* Iterations of the outer loop of one_step_infe explored in one call.
MaxChildren == 2
\* Different opponent responses in one explored sample of one_step_infe.
MaxSample == 2
\* Scores of eval_pos are kept in units of 1 / Precision.
Precision == 1000
\* Turns from the first on at which the explored game calls minimax; it is
\* called again at the turns after the throws.
EarlyTurns == 2

\* Board.__init__: range(-4, +4 + 1)
HexRadius == 4
\* available_actions: "if throws < 9"
MaxThrows == 9
\* Player.action: minimax(self.board, 2, ...)
SearchDepth == 2
\* oldman.py Player.action: "if self.game_in_head.nturns <= 6"
RandomTurns == 6
\* oldman.py Player.action: "steps = 2"
Steps == 2
\* oldman.py one_step_infe: "k=min(10, len(...))"
SampleSize == 10
\* goodthrowtwodeep.py: "from math import sqrt, inf", a number above every
\* score of eval_pos
inf == 1000000000

----------------------------------------------------------------------------
(* str.lower, str.upper, str.isupper, str.islower on one-letter tokens *)

Colours == {"upper", "lower"}
Hands == {"r", "p", "s"}

lower(s) ==
    CASE s = "R" -> "r" [] s = "P" -> "p" [] s = "S" -> "s" [] OTHER -> s

upper(s) ==
    CASE s = "r" -> "R" [] s = "p" -> "P" [] s = "s" -> "S" [] OTHER -> s

isupper(s) == s \in {"R", "P", "S"}

islower(s) == s \in {"r", "p", "s"}

\* isplayer = str.islower if colour == "lower" else str.isupper
isplayer(colour, s) == IF colour = "lower" THEN islower(s) ELSE isupper(s)

opp(colour) == IF colour = "upper" THEN "lower" ELSE "upper"

----------------------------------------------------------------------------
(* Board.__init__ and Board._ADJACENT *)

HEX_RANGE == (0 - HexRadius) .. HexRadius

SET_HEXES ==
    {x \in HEX_RANGE \X HEX_RANGE : (0 - x[1] - x[2]) \in HEX_RANGE}

HEX_STEPS == {<<1, -1>>, <<1, 0>>, <<0, 1>>, <<-1, 1>>, <<-1, 0>>, <<0, -1>>}

\* Variant: the table read the other way round (_WHAT_BEATS).
BEATS_WHAT_as_WHAT_BEATS(t) ==
    CASE t = "r" -> "p" [] t = "p" -> "s" [] t = "s" -> "r"

BEATS_WHAT(t) == CASE t = "r" -> "s" [] t = "p" -> "r" [] t = "s" -> "p"

\* Variant: the six steps without the intersection with the board.
ADJACENT_unclipped(x) ==
    {<<x[1] + st[1], x[2] + st[2]>> : st \in HEX_STEPS}

ADJACENT(x) ==
    SET_HEXES \cap {<<x[1] + st[1], x[2] + st[2]>> : st \in HEX_STEPS}

\* Board(): empty board, no throws, no turns.
NewBoard ==
    [board |-> [x \in SET_HEXES |-> <<>>],
     throws |-> [c \in Colours |-> 0],
     nturns |-> 0]

----------------------------------------------------------------------------
(* Board._BATTLE *)

CountIf(s, colour) ==
    Cardinality({i \in DOMAIN s : isplayer(colour, s[i])})

\* for t in types: symbols = [s for s in symbols if s.lower() != BEATS_WHAT[t]]
RECURSIVE Undefeated(_, _)
Undefeated(syms, types) ==
    IF types = {} THEN syms
    ELSE LET t == CHOOSE u \in types : TRUE
             Stays(s) == lower(s) # BEATS_WHAT(t)
         IN  Undefeated(SelectSeq(syms, Stays), types \ {t})

\* Variant: the two deltas returned in the other order.
BATTLE_deltas_swapped(syms) ==
    LET types == {lower(syms[i]) : i \in DOMAIN syms}
        upper_cnt == CountIf(syms, "upper")
        lower_cnt == CountIf(syms, "lower")
    IN  IF Cardinality(types) = 1 THEN <<syms, 0, 0>>
        ELSE IF Cardinality(types) = 3
             THEN <<<< >>, 0 - lower_cnt, 0 - upper_cnt>>
        ELSE LET left == Undefeated(syms, types)
             IN  <<left, CountIf(left, "lower") - lower_cnt,
                         CountIf(left, "upper") - upper_cnt>>

\* Returns <<survivors, upper delta, lower delta>>.
BATTLE(syms) ==
    LET types == {lower(syms[i]) : i \in DOMAIN syms}
        upper_cnt == CountIf(syms, "upper")
        lower_cnt == CountIf(syms, "lower")
    IN  IF Cardinality(types) = 1 THEN <<syms, 0, 0>>
        ELSE IF Cardinality(types) = 3
             THEN <<<< >>, 0 - upper_cnt, 0 - lower_cnt>>
        ELSE LET left == Undefeated(syms, types)
             IN  <<left, CountIf(left, "upper") - upper_cnt,
                         CountIf(left, "lower") - lower_cnt>>

----------------------------------------------------------------------------
(* Board.available_actions: the set of actions the generator yields *)

\* Variant: the row test without the sign of the colour.
throw_zone_unsigned(b, colour) ==
    {x \in SET_HEXES : x[1] >= HexRadius - b.throws[colour]}

throw_zone(b, colour) ==
    LET sign == IF colour = "lower" THEN -1 ELSE 1
    IN  {x \in SET_HEXES : sign * x[1] >= HexRadius - b.throws[colour]}

\* Variant: a hex counts as occupied when it holds a token of either side.
occupied_by_any(b, colour) ==
    {x \in SET_HEXES : b.board[x] # << >>}

occupied(b, colour) ==
    {x \in SET_HEXES :
        \E i \in DOMAIN b.board[x] : isplayer(colour, b.board[x][i])}

\* Variant: throws still offered when the count has reached the limit.
available_actions_throw_at_limit(b, colour) ==
    (IF b.throws[colour] <= MaxThrows
     THEN {<<"THROW", s, x>> : s \in Hands, x \in throw_zone(b, colour)}
     ELSE {})
    \cup
    UNION {
        {<<"SLIDE", x, y>> : y \in ADJACENT(x)}
        \cup
        UNION {
            {<<"SWING", x, z>> : z \in (ADJACENT(y) \ ADJACENT(x)) \ {x}}
            : y \in ADJACENT(x) \cap occupied(b, colour) }
        : x \in occupied(b, colour) }

\* Variant: a swing pivots on a hex occupied by either side.
available_actions_any_pivot(b, colour) ==
    (IF b.throws[colour] < MaxThrows
     THEN {<<"THROW", s, x>> : s \in Hands, x \in throw_zone(b, colour)}
     ELSE {})
    \cup
    UNION {
        {<<"SLIDE", x, y>> : y \in ADJACENT(x)}
        \cup
        UNION {
            {<<"SWING", x, z>> : z \in (ADJACENT(y) \ ADJACENT(x)) \ {x}}
            : y \in ADJACENT(x) \cap
                    (occupied(b, "upper") \cup occupied(b, "lower")) }
        : x \in occupied(b, colour) }

available_actions(b, colour) ==
    (IF b.throws[colour] < MaxThrows
     THEN {<<"THROW", s, x>> : s \in Hands, x \in throw_zone(b, colour)}
     ELSE {})
    \cup
    UNION {
        {<<"SLIDE", x, y>> : y \in ADJACENT(x)}
        \cup
        UNION {
            {<<"SWING", x, z>> : z \in (ADJACENT(y) \ ADJACENT(x)) \ {x}}
            : y \in ADJACENT(x) \cap occupied(b, colour) }
        : x \in occupied(b, colour) }

----------------------------------------------------------------------------
(* Board.update and Board.half_update *)

\* list.remove(s): drops the first occurrence of s
RECURSIVE Remove(_, _)
Remove(seq, s) ==
    IF seq = << >> THEN << >>
    ELSE IF Head(seq) = s THEN Tail(seq)
    ELSE <<Head(seq)>> \o Remove(Tail(seq), s)

Contains(seq, s) == \E i \in DOMAIN seq : seq[i] = s

\* What validation does with an illegal action: the first statement of the
\* branch is self.logger.info(...), and Board has no attribute logger, so
\* the branch ends there with AttributeError; the raise Exception(...)
\* below it is never reached.
illegal_action_error == "AttributeError"

\* The first colour, upper before lower, whose action is not among its
\* available actions; "none" when both pass.
invalid_side(b, upper_action, lower_action) ==
    IF upper_action \notin available_actions(b, "upper") THEN "upper"
    ELSE IF lower_action \notin available_actions(b, "lower") THEN "lower"
    ELSE "none"

\* Variant: the moved token is always looked up in upper case.
apply_action_upper_case(st, action, colour) ==
    IF st.raised # "none" THEN st
    ELSE IF action[1] = "THROW" THEN
        LET s == action[2]
            x == action[3]
            tok == IF colour = "upper" THEN upper(s) ELSE lower(s)
        IN  [st EXCEPT !.board[x] = Append(@, tok),
                       !.throws[colour] = @ + 1,
                       !.battles = Append(@, x)]
    ELSE
        LET x == action[2]
            y == action[3]
        IN  IF st.board[x] = << >> THEN [st EXCEPT !.raised = "IndexError"]
            ELSE
            LET s == upper(st.board[x][1])
            IN  IF ~Contains(st.board[x], s)
                THEN [st EXCEPT !.raised = "ValueError"]
                ELSE LET removed == [st.board EXCEPT ![x] = Remove(@, s)]
                     IN  [st EXCEPT !.board = [removed EXCEPT ![y] = Append(@, s)],
                                    !.battles = Append(@, y)]

\* Variant: a slide or swing does not put its destination up for battle.
apply_action_no_battle(st, action, colour) ==
    IF st.raised # "none" THEN st
    ELSE IF action[1] = "THROW" THEN
        LET s == action[2]
            x == action[3]
            tok == IF colour = "upper" THEN upper(s) ELSE lower(s)
        IN  [st EXCEPT !.board[x] = Append(@, tok),
                       !.throws[colour] = @ + 1,
                       !.battles = Append(@, x)]
    ELSE
        LET x == action[2]
            y == action[3]
        IN  IF st.board[x] = << >> THEN [st EXCEPT !.raised = "IndexError"]
            ELSE
            LET s == IF colour = "upper" THEN upper(st.board[x][1])
                                         ELSE lower(st.board[x][1])
            IN  IF ~Contains(st.board[x], s)
                THEN [st EXCEPT !.raised = "ValueError"]
                ELSE LET removed == [st.board EXCEPT ![x] = Remove(@, s)]
                     IN  [st EXCEPT !.board = [removed EXCEPT ![y] = Append(@, s)]]

\* One side's block of update / half_update on the running state
\* st = [board, throws, battles, raised].  An exception stops everything
\* after it and keeps what was already written.
apply_action(st, action, colour) ==
    IF st.raised # "none" THEN st
    ELSE IF action[1] = "THROW" THEN
        LET s == action[2]
            x == action[3]
            tok == IF colour = "upper" THEN upper(s) ELSE lower(s)
        IN  [st EXCEPT !.board[x] = Append(@, tok),
                       !.throws[colour] = @ + 1,
                       !.battles = Append(@, x)]
    ELSE
        LET x == action[2]
            y == action[3]
        IN  IF st.board[x] = << >> THEN [st EXCEPT !.raised = "IndexError"]
            ELSE
            LET s == IF colour = "upper" THEN upper(st.board[x][1])
                                         ELSE lower(st.board[x][1])
            IN  IF ~Contains(st.board[x], s)
                THEN [st EXCEPT !.raised = "ValueError"]
                ELSE LET removed == [st.board EXCEPT ![x] = Remove(@, s)]
                     IN  [st EXCEPT !.board = [removed EXCEPT ![y] = Append(@, s)],
                                    !.battles = Append(@, y)]

\* Variant: the counts of the last battle replace those of the ones before.
RECURSIVE resolve_last_counted(_, _)
resolve_last_counted(acc, battles) ==
    IF battles = << >> THEN acc
    ELSE LET x == Head(battles)
             res == BATTLE(acc.board[x])
         IN  resolve_last_counted(
                [board |-> [acc.board EXCEPT ![x] = res[1]],
                 upper_defeated_cnt |-> res[2],
                 lower_defeated_cnt |-> res[3]],
                Tail(battles))

\* for x in battles: self.board[x], ud, ld = self._BATTLE(self.board[x])
\* acc = [board, upper_defeated_cnt, lower_defeated_cnt]
RECURSIVE resolve(_, _)
resolve(acc, battles) ==
    IF battles = << >> THEN acc
    ELSE LET x == Head(battles)
             res == BATTLE(acc.board[x])
         IN  resolve([board |-> [acc.board EXCEPT ![x] = res[1]],
                      upper_defeated_cnt |-> acc.upper_defeated_cnt + res[2],
                      lower_defeated_cnt |-> acc.lower_defeated_cnt + res[3]],
                     Tail(battles))

\* Variant: lower's action is validated only after upper's was applied.
update_validate_late(b, upper_action, lower_action) ==
    IF upper_action \notin available_actions(b, "upper")
    THEN [b |-> b, raised |-> illegal_action_error, ret |-> <<0, 0>>]
    ELSE
    LET st0 == [board |-> b.board, throws |-> b.throws,
                battles |-> << >>, raised |-> "none"]
        st1 == apply_action(st0, upper_action, "upper")
        mid == [board |-> st1.board, throws |-> st1.throws, nturns |-> b.nturns]
        st2 == apply_action(st1, lower_action, "lower")
        fin == resolve([board |-> st2.board, upper_defeated_cnt |-> 0,
                        lower_defeated_cnt |-> 0], st2.battles)
    IN  IF lower_action \notin available_actions(mid, "lower")
        THEN [b |-> mid, raised |-> illegal_action_error, ret |-> <<0, 0>>]
        ELSE IF st2.raised # "none"
        THEN [b |-> [board |-> st2.board, throws |-> st2.throws,
                     nturns |-> b.nturns],
              raised |-> st2.raised, ret |-> <<0, 0>>]
        ELSE [b |-> [board |-> fin.board, throws |-> st2.throws,
                     nturns |-> b.nturns + 1],
              raised |-> "none",
              ret |-> <<fin.upper_defeated_cnt, fin.lower_defeated_cnt>>]

\* Variant: a rejected turn is counted as a turn.
update_counts_rejected(b, upper_action, lower_action) ==
    IF invalid_side(b, upper_action, lower_action) # "none"
    THEN [b |-> [b EXCEPT !.nturns = @ + 1],
          raised |-> illegal_action_error, ret |-> <<0, 0>>]
    ELSE
    LET st0 == [board |-> b.board, throws |-> b.throws,
                battles |-> << >>, raised |-> "none"]
        st1 == apply_action(st0, upper_action, "upper")
        st2 == apply_action(st1, lower_action, "lower")
        fin == resolve([board |-> st2.board, upper_defeated_cnt |-> 0,
                        lower_defeated_cnt |-> 0], st2.battles)
    IN  IF st2.raised # "none"
        THEN [b |-> [board |-> st2.board, throws |-> st2.throws,
                     nturns |-> b.nturns],
              raised |-> st2.raised, ret |-> <<0, 0>>]
        ELSE [b |-> [board |-> fin.board, throws |-> st2.throws,
                     nturns |-> b.nturns + 1],
              raised |-> "none",
              ret |-> <<fin.upper_defeated_cnt, fin.lower_defeated_cnt>>]

\* Board.update(upper_action, lower_action) on Board b:
\* [b: the Board afterwards, raised: the exception or "none", ret: the pair]
update(b, upper_action, lower_action) ==
    IF invalid_side(b, upper_action, lower_action) # "none"
    THEN [b |-> b, raised |-> illegal_action_error, ret |-> <<0, 0>>]
    ELSE
    LET st0 == [board |-> b.board, throws |-> b.throws,
                battles |-> << >>, raised |-> "none"]
        st1 == apply_action(st0, upper_action, "upper")
        st2 == apply_action(st1, lower_action, "lower")
        fin == resolve([board |-> st2.board, upper_defeated_cnt |-> 0,
                        lower_defeated_cnt |-> 0], st2.battles)
    IN  IF st2.raised # "none"
        THEN [b |-> [board |-> st2.board, throws |-> st2.throws,
                     nturns |-> b.nturns],
              raised |-> st2.raised, ret |-> <<0, 0>>]
        ELSE [b |-> [board |-> fin.board, throws |-> st2.throws,
                     nturns |-> b.nturns + 1],
              raised |-> "none",
              ret |-> <<fin.upper_defeated_cnt, fin.lower_defeated_cnt>>]

\* Variant: half_update counts a turn as update does.
half_update_counts_turn(b, action, colour) ==
    LET st0 == [board |-> b.board, throws |-> b.throws,
                battles |-> << >>, raised |-> "none"]
        st1 == apply_action(st0, action, colour)
        fin == resolve([board |-> st1.board, upper_defeated_cnt |-> 0,
                        lower_defeated_cnt |-> 0], st1.battles)
    IN  IF st1.raised # "none"
        THEN [b |-> [board |-> st1.board, throws |-> st1.throws,
                     nturns |-> b.nturns],
              raised |-> st1.raised]
        ELSE [b |-> [board |-> fin.board, throws |-> st1.throws,
                     nturns |-> b.nturns + 1],
              raised |-> "none"]

\* Board.half_update(action, colour) on Board b: no validation, one side,
\* nturns untouched, nothing returned.
half_update(b, action, colour) ==
    LET st0 == [board |-> b.board, throws |-> b.throws,
                battles |-> << >>, raised |-> "none"]
        st1 == apply_action(st0, action, colour)
        fin == resolve([board |-> st1.board, upper_defeated_cnt |-> 0,
                        lower_defeated_cnt |-> 0], st1.battles)
    IN  IF st1.raised # "none"
        THEN [b |-> [board |-> st1.board, throws |-> st1.throws,
                     nturns |-> b.nturns],
              raised |-> st1.raised]
        ELSE [b |-> [board |-> fin.board, throws |-> st1.throws,
                     nturns |-> b.nturns],
              raised |-> "none"]

----------------------------------------------------------------------------
(* eval_pos *)

\* own_tokens[hand]: the hexes whose first token (token[0]) is of the side
\* and of the hand.  Only the first token of a hex is looked at.
own_tokens(bd, colour) ==
    [h \in Hands |->
        {x \in DOMAIN bd : /\ bd[x] # << >>
                           /\ isplayer(colour, bd[x][1])
                           /\ lower(bd[x][1]) = h}]

\* opp_tokens[hand]: the hexes whose first token is not of the side.
opp_tokens(bd, colour) ==
    [h \in Hands |->
        {x \in DOMAIN bd : /\ bd[x] # << >>
                           /\ ~isplayer(colour, bd[x][1])
                           /\ lower(bd[x][1]) = h}]

\* dist(pos1, pos2) squared
dist2(pos1, pos2) ==
    (pos1[1] - pos2[1]) * (pos1[1] - pos2[1])
        + (pos1[2] - pos2[2]) * (pos1[2] - pos2[2])

MinOf(S) == CHOOSE m \in S : \A n \in S : m <= n

\* The score as whole + the sum over roots of n / (m * sqrt(d2)):
\*   whole: minus 2 for every position in opp_tokens;
\*   roots: one <<position, n, m, d2>> for every own position whose hand has
\*          targets, (1 + init_value) = n / m and d2 the squared distance to
\*          the closest target.  With no target the term is 1 / inf = 0.
eval_pos(bd, colour) ==
    LET own == own_tokens(bd, colour)
        other == opp_tokens(bd, colour)
        targets(h) == other[BEATS_WHAT(h)]
    IN  [whole |-> 0 - 2 * Cardinality(UNION {other[h] : h \in Hands}),
         roots |->
            UNION {
                {<<position,
                   Cardinality(own[h]) + Cardinality(targets(h)),
                   Cardinality(own[h]),
                   MinOf({dist2(position, target) : target \in targets(h)})>>
                 : position \in own[h]}
                : h \in {g \in Hands : targets(g) # {}} }]

----------------------------------------------------------------------------
(* Player.update and the copies the two searches make *)

\* Variant: the lower agent hands the two actions over as the upper one does.
Player_update_as_upper(colour, b, opponent_action, player_action) ==
    update(b, player_action, opponent_action)

\* Player.update(opponent_action, player_action) of an agent of the colour
\* whose Board is b.
Player_update(colour, b, opponent_action, player_action) ==
    IF colour = "upper" THEN update(b, player_action, opponent_action)
    ELSE update(b, opponent_action, player_action)

\* Variant: the action is applied to curr_board itself.
minimax_child_in_place(curr_board, act, player) ==
    LET r == half_update(curr_board, act, player)
    IN  [curr |-> r.b, child |-> r.b, raised |-> r.raised]

\* minimax: child = deepcopy(curr_board); child.half_update(act, player)
\* [curr: curr_board afterwards, child: the child, raised]
minimax_child(curr_board, act, player) ==
    LET r == half_update(curr_board, act, player)
    IN  [curr |-> curr_board, child |-> r.b, raised |-> r.raised]

----------------------------------------------------------------------------
(* oldman.py: Player.action and Player.one_step_infe.  Scores are kept     *)
(* doubled, so that the weight 1.5 is 3 and the weight 1 is 2.             *)

\* Variant: the random opening ends one turn earlier.
in_opening_below(b) == b.nturns < RandomTurns

\* if self.game_in_head.nturns <= 6
in_opening(b) == b.nturns <= RandomTurns

\* k = min(10, len(all_act))
sample_k(all_act) ==
    IF Cardinality(all_act) < SampleSize THEN Cardinality(all_act)
    ELSE SampleSize

\* child_score, doubled, from the pair update returned:
\* score + 1.5*lower_defeated - upper_defeated for upper,
\* score - lower_defeated + 1.5*upper_defeated for lower.
child_score(colour, score, defeated) ==
    IF colour = "upper" THEN score + 3 * defeated[2] - 2 * defeated[1]
    ELSE score - 2 * defeated[2] + 3 * defeated[1]

\* Variant: a response that ties with the minimum is appended to
\* opponent_acts.
respond_ties_kept(colour, score, acc, opp_act, r) ==
    LET cs == child_score(colour, score, r.ret)
        one == <<[act |-> opp_act, node |-> r.b]>>
        seen == Append(acc.scores, cs)
    IN  IF r.raised # "none" THEN [acc EXCEPT !.raised = r.raised]
        ELSE IF acc.min_onestep = << >> \/ acc.min_onestep[1] > cs
        THEN [min_onestep |-> <<cs>>, opponent_acts |-> one,
              scores |-> seen, raised |-> "none"]
        ELSE IF acc.min_onestep[1] = cs
        THEN [acc EXCEPT !.scores = seen,
                         !.opponent_acts = acc.opponent_acts \o one]
        ELSE [acc EXCEPT !.scores = seen]

\* The body of the inner loop of one_step_infe for the response opp_act,
\* r being what child_node.update(...) did to the copy of the parent.
\* acc = [min_onestep, opponent_acts, scores, raised]; scores lists the
\* child_score of every response gone through.  A response whose score
\* equals min_onestep is passed over.
respond(colour, score, acc, opp_act, r) ==
    LET cs == child_score(colour, score, r.ret)
        one == <<[act |-> opp_act, node |-> r.b]>>
        seen == Append(acc.scores, cs)
    IN  IF r.raised # "none" THEN [acc EXCEPT !.raised = r.raised]
        ELSE IF acc.min_onestep = << >> \/ acc.min_onestep[1] > cs
        THEN [min_onestep |-> <<cs>>, opponent_acts |-> one,
              scores |-> seen, raised |-> "none"]
        ELSE [acc EXCEPT !.scores = seen]

\* The inner loop of one_step_infe over the sampled opponent responses:
\*   child_node = deepcopy(parent_node); ... = child_node.update(...)
RECURSIVE inner_loop(_, _, _, _, _, _)
inner_loop(colour, parent_node, score, own_act, sample, acc) ==
    IF sample = << >> \/ acc.raised # "none" THEN acc
    ELSE inner_loop(colour, parent_node, score, own_act, Tail(sample),
            respond(colour, score, acc, Head(sample),
                    IF colour = "upper"
                    THEN update(parent_node, own_act, Head(sample))
                    ELSE update(parent_node, Head(sample), own_act)))

\* min_onestep = None; opponent_acts = []
loop_start ==
    [min_onestep |-> << >>, opponent_acts |-> << >>, scores |-> << >>,
     raised |-> "none"]

\* What one iteration of the outer loop leaves when its inner loop ended
\* with loop: the child appended to children_nodes, if any.  it is [own:
\* the sampled own action, sample: the sampled responses, pick: the index
\* random.choice takes in opponent_acts].
iteration(colour, path, it, loop) ==
    LET kept == loop.opponent_acts[it.pick]
        turn == IF colour = "upper" THEN <<it.own, kept.act>>
                ELSE <<kept.act, it.own>>
        child == [node |-> kept.node, path |-> path \o turn,
                  score |-> loop.min_onestep[1]]
        entry == [own |-> it.own, sample |-> it.sample,
                  scores |-> loop.scores,
                  pool |-> [i \in DOMAIN loop.opponent_acts |->
                                loop.opponent_acts[i].act],
                  min_onestep |-> loop.min_onestep]
    IN  [children_nodes |->
            IF loop.raised # "none" \/ loop.min_onestep = << >> THEN << >>
            ELSE <<child>>,
         trace |-> <<entry>>,
         raised |-> loop.raised]

\* An iteration followed by the rest of the loop; an exception ends it.
followed(first, rest) ==
    IF first.raised # "none" THEN first
    ELSE [children_nodes |-> first.children_nodes \o rest.children_nodes,
          trace |-> first.trace \o rest.trace,
          raised |-> rest.raised]

\* one_step_infe(parent_node, path, score) when the outer loop goes through
\* the iterations its.
\* [children_nodes, trace: what every iteration went through, raised]
RECURSIVE one_step_infe(_, _, _, _, _)
one_step_infe(colour, parent_node, path, score, its) ==
    IF its = << >>
    THEN [children_nodes |-> << >>, trace |-> << >>, raised |-> "none"]
    ELSE followed(
            iteration(colour, path, Head(its),
                      inner_loop(colour, parent_node, score, Head(its).own,
                                 Head(its).sample, loop_start)),
            one_step_infe(colour, parent_node, path, score, Tail(its)))

\* The leaf branch of the while loop of Player.action.
leaf(mm, paths, path, score) ==
    IF mm = << >>
    THEN [maxmin |-> <<score>>, good_paths |-> Append(paths, path)]
    ELSE IF mm[1] = score
    THEN [maxmin |-> mm, good_paths |-> Append(paths, path)]
    ELSE IF mm[1] < score
    THEN [maxmin |-> <<score>>, good_paths |-> <<path>>]
    ELSE [maxmin |-> mm, good_paths |-> paths]

----------------------------------------------------------------------------
(* The game: what the host and the agent do with one Board *)

\* The authoritative Board as one record.
Self == [board |-> board, throws |-> throws, nturns |-> nturns]

NoAction == <<"NONE">>

----------------------------------------------------------------------------
(* goodthrowtwodeep.py: Player.action.minimax.  A score is an integer, the *)
(* number of 1/Precision in it, every term of eval_pos rounded down.       *)

\* floor of the square root of v, which lies in lo .. hi
RECURSIVE sqrt(_, _, _)
sqrt(lo, hi, v) ==
    IF lo = hi THEN lo
    ELSE LET mid == (lo + hi + 1) \div 2
         IN  IF mid * mid <= v THEN sqrt(mid, hi, v)
             ELSE sqrt(lo, mid - 1, v)

\* (1 + init_value) / min_target_dist for one own token, n / m being
\* 1 + init_value and d2 the square of min_target_dist.
term(n, m, d2) ==
    sqrt(0, Precision * n, (Precision * n * Precision * n) \div (m * m * d2))

RECURSIVE sum_terms(_)
sum_terms(roots) ==
    IF roots = {} THEN 0
    ELSE LET r == CHOOSE x \in roots : TRUE
         IN  term(r[2], r[3], r[4]) + sum_terms(roots \ {r})

\* The number eval_pos returns.
score_of(e) == Precision * e.whole + sum_terms(e.roots)

\* Variant: a throw that scores no more than the best replaces it as well.
throw_step_last_kept(best, act, score) ==
    {[act |-> act, score |-> score]}

\* The body of the loop over all_acts for a THROW act of the given score.
\* best = [act: best_throw[0], score: best_throw_score]; the result is what
\* they can be after it, choice([best_throw[0], act]) giving either one.
throw_step(best, act, score) ==
    IF score > best.score THEN {[act |-> act, score |-> score]}
    ELSE IF score = best.score THEN {best, [act |-> act, score |-> score]}
    ELSE {best}

\* score = eval_pos(anal_board.board, player) for every THROW of all_acts,
\* anal_board being the copy the throw was half_updated on.
throw_scores(curr_board, player) ==
    [act \in {a \in available_actions(curr_board, player) : a[1] = "THROW"}
        |-> score_of(eval_pos(half_update(curr_board, act, player).b.board,
                              player))]

\* The loop over all_acts from best on, for the THROWs onto the hex x: one
\* for each s of "rps" the generator yields there, hands being those left.
RECURSIVE throws_at(_, _, _, _)
throws_at(best, scores, x, hands) ==
    IF hands = {} THEN {best}
    ELSE LET s == CHOOSE h \in hands : TRUE
             act == <<"THROW", s, x>>
         IN  UNION {throw_step(b, act, scores[act]) :
                        b \in throws_at(best, scores, x, hands \ {s})}

\* The same for the THROWs onto the hexes of one row of the throw zone.
RECURSIVE throws_on(_, _, _)
throws_on(best, scores, todo) ==
    IF todo = {} THEN {best}
    ELSE LET x == (CHOOSE a \in todo : TRUE)[3]
             here == {a[2] : a \in {t \in todo : t[3] = x}}
         IN  UNION {throws_at(b, scores, x, here) :
                        b \in throws_on(best, scores,
                                        {t \in todo : t[3] # x})}

\* The loop over the THROWs of all_acts, todo being those gone through, a
\* row of the throw zone at a time: every [act: best_throw[0],
\* score: best_throw_score] the loop can end with, act = NoAction standing
\* for best_throw = [].
RECURSIVE best_throw(_, _)
best_throw(scores, todo) ==
    IF todo = {} THEN {[act |-> NoAction, score |-> 0 - inf]}
    ELSE LET r == (CHOOSE a \in todo : TRUE)[3][1]
         IN  UNION {throws_on(b, scores, {t \in todo : t[3][1] = r}) :
                        b \in best_throw(scores,
                                         {t \in todo : t[3][1] # r})}

\* A place of an action in the order the generator yields them.
Rank(a) ==
    LET side == HexRadius + HexRadius + 1
        at(x) == (x[1] + HexRadius) * side + x[2] + HexRadius
    IN  (IF a[1] = "SLIDE" THEN 0 ELSE side * side * side * side)
            + at(a[2]) * side * side + at(a[3])

RECURSIVE Ordered(_)
Ordered(S) ==
    IF S = {} THEN << >>
    ELSE LET a == CHOOSE x \in S : \A y \in S : Rank(x) <= Rank(y)
         IN  <<a>> \o Ordered(S \ {a})

Reversed(s) == [i \in DOMAIN s |-> s[Len(s) + 1 - i]]

\* The orders explored for the actions the generator yields from its sets
\* of hexes: by rank, up or down.
Orders(S) == {Ordered(S), Reversed(Ordered(S))}

\* The lists acts can be at a node: the actions that are not THROWs in the
\* order they were yielded, then best_throw.
candidates(curr_board, player) ==
    LET all_acts == available_actions(curr_board, player)
        scores == throw_scores(curr_board, player)
        kept == {IF best.act = NoAction THEN << >> ELSE <<best.act>> :
                    best \in best_throw(scores, DOMAIN scores)}
    IN  {moves \o throw :
            moves \in Orders({a \in all_acts : a[1] # "THROW"}),
            throw \in kept}

\* The body of the minimising loop for a child whose minimax at depth 0
\* returned score.  loc = [min_score, beta, cut, raised]
min_step(loc, alpha, score) ==
    LET low == IF score < loc.min_score THEN score ELSE loc.min_score
        beta == IF score < loc.beta THEN score ELSE loc.beta
    IN  [min_score |-> low, beta |-> beta, cut |-> beta <= alpha,
         raised |-> "none"]

\* What the child of act does to the loop: half_update on a copy, then the
\* call at depth 0, eval_pos(curr_board.board, self.colour).
min_visit(colour, loc, alpha, r) ==
    IF r.raised # "none" THEN [loc EXCEPT !.raised = r.raised]
    ELSE min_step(loc, alpha, score_of(eval_pos(r.child.board, colour)))

\* minimax(curr_board, 1, alpha, beta, player) for player # self.colour,
\* its list acts given: the loop from loc on.
RECURSIVE min_loop(_, _, _, _, _, _)
min_loop(colour, curr_board, player, acts, alpha, loc) ==
    IF acts = << >> \/ loc.cut \/ loc.raised # "none" THEN loc
    ELSE min_loop(colour, curr_board, player, Tail(acts), alpha,
            min_visit(colour, loc, alpha,
                      minimax_child(curr_board, Head(acts), player)))

\* min_score = inf, and the beta the call was given
min_start(beta) ==
    [min_score |-> inf, beta |-> beta, cut |-> FALSE, raised |-> "none"]

\* The best_throw a list acts ends with: << >> or one THROW.
throw_of(acts) ==
    IF acts # << >> /\ acts[Len(acts)][1] = "THROW"
    THEN <<acts[Len(acts)]>> ELSE << >>

\* Variant: max_score starts at 0.
root_start_at_zero(acts) ==
    [acts |-> acts, tried |-> << >>, node |-> << >>, alpha |-> 0 - inf,
     beta |-> inf, max_score |-> 0, best_move |-> NoAction, cut |-> FALSE]

\* minimax(self.board, 2, -inf, inf, self.colour) before its loop over acts:
\* max_score = -inf, best_move = None.  tried lists, for every act gone
\* through, the act, the score its child's call returned and the
\* best_throw of that call; node is the last child with its acts.
root_start(acts) ==
    [acts |-> acts, tried |-> << >>, node |-> << >>, alpha |-> 0 - inf,
     beta |-> inf, max_score |-> 0 - inf, best_move |-> NoAction,
     cut |-> FALSE]

\* Variant: an act that scores max_score replaces best_move as well.
root_step_last_best(loc, act, score, node) ==
    LET better == score >= loc.max_score
        alpha == IF score > loc.alpha THEN score ELSE loc.alpha
    IN  [loc EXCEPT !.tried = Append(@, [act |-> act, score |-> score,
                                         best_throw |-> throw_of(node.acts)]),
                    !.node = <<node>>,
                    !.max_score = IF better THEN score ELSE @,
                    !.best_move = IF better THEN act ELSE @,
                    !.alpha = alpha,
                    !.cut = loc.beta <= alpha]

\* The body of the maximising loop at the root for act, score being what
\* minimax(child, 1, alpha, beta, opp[player]) returned.
root_step(loc, act, score, node) ==
    LET better == score > loc.max_score
        alpha == IF score > loc.alpha THEN score ELSE loc.alpha
    IN  [loc EXCEPT !.tried = Append(@, [act |-> act, score |-> score,
                                         best_throw |-> throw_of(node.acts)]),
                    !.node = <<node>>,
                    !.max_score = IF better THEN score ELSE @,
                    !.best_move = IF better THEN act ELSE @,
                    !.alpha = alpha,
                    !.cut = loc.beta <= alpha]

\* Hexes the explored slides and swings stay on: three hexes in a line
\* through the centre, enough for a slide, a swing and every kind of battle.
Arena == {<<-1, 0>>, <<0, 0>>, <<1, 0>>}

\* Hexes the explored free throws land on.
ThrowHexes == {<<0, 0>>}

\* Each side's throws but the last are a fixed opening; the last throw and
\* every slide and swing after the opening are free.
OpeningThrows == MaxThrows - 1

\* The opening: both sides stack one hand on a hex of their first throw
\* row, except that upper's 4th and 5th throws put a rock on <<1,0>> and
\* <<0,0>> and lower's 4th throw puts scissors on <<-1,0>>.
OpeningThrow(colour, t) ==
    IF colour = "upper"
    THEN CASE t = 3 -> <<"THROW", "r", <<1, 0>>>>
           [] t = 4 -> <<"THROW", "r", <<0, 0>>>>
           [] OTHER -> <<"THROW", "r", <<HexRadius, -2>>>>
    ELSE CASE t = 3 -> <<"THROW", "s", <<-1, 0>>>>
           [] OTHER -> <<"THROW", "p", <<0 - HexRadius, 2>>>>

OnArena(a) ==
    IF a[1] = "THROW" THEN a[3] \in ThrowHexes
    ELSE a[2] \in Arena /\ a[3] \in Arena

\* The generated actions explored for a side on Board b.
Generated(b, colour) ==
    IF b.throws[colour] < OpeningThrows
    THEN {OpeningThrow(colour, b.throws[colour])}
            \cap available_actions(b, colour)
    ELSE {a \in available_actions(b, colour) : OnArena(a)}

\* Actions a caller hands to Board.update without asking the generator.
Probes ==
    {<<"THROW", "s", <<0, 0>>>>,
     <<"SLIDE", <<0, 0>>, <<1, 0>>>>,
     <<"SWING", <<1, 0>>, <<-1, 0>>>>}

\* What Player.__init__ of both agents and of the depth-first agent leaves,
\* with nothing in progress.
Constructed ==
    /\ board = NewBoard.board
    /\ throws = NewBoard.throws
    /\ nturns = NewBoard.nturns
    /\ mirror = NewBoard
    /\ call = [op |-> "init", upper |-> NoAction, lower |-> NoAction]
    /\ raised = "none"
    /\ ret = <<0, 0>>
    /\ frames = << >>
    /\ survivors = << >>
    /\ adjacent = {}
    /\ pc = "idle"
    /\ stack = << >>
    /\ maxmin = << >>
    /\ good_paths = << >>
    /\ chosen = NoAction
    /\ infe = << >>
    /\ leaves = {}
    /\ root = root_start(<< >>)

Init ==
    /\ Constructed
    /\ symbols = << >>
    /\ hex = <<0, 0>>
    /\ agent = "upper"

\* Both agents' Player.update -> Board.update(upper_action, lower_action):
\* the upper agent on its Board, the lower agent on its own.  An exception
\* goes up to the host and ends the game.
Update(upper_action, lower_action) ==
    /\ raised = "none"
    /\ frames = << >>
    /\ LET r == Player_update("upper", Self, lower_action, upper_action)
           m == Player_update("lower", mirror, upper_action, lower_action)
       IN  /\ board' = r.b.board
           /\ throws' = r.b.throws
           /\ nturns' = r.b.nturns
           /\ mirror' = m.b
           /\ raised' = IF r.raised # "none" THEN r.raised ELSE m.raised
           /\ ret' = r.ret
    /\ call' = [op |-> "update", upper |-> upper_action, lower |-> lower_action]
    /\ pc' = "idle"
    /\ chosen' = NoAction
    /\ UNCHANGED <<frames, agent, battleVars, hexVars,
                   stack, maxmin, good_paths, infe, leaves, root>>

\* The Board a new search node copies.
Parent == IF frames = << >> THEN Self ELSE frames[Len(frames)].b

\* One node of minimax.  The root's player is the agent's colour; below it
\* the players alternate.  curr_board is self.board at the root and the
\* last copy below it.
Simulate(act, player) ==
    /\ raised = "none"
    /\ Len(frames) < SearchDepth
    /\ frames # << >> => player = opp(frames[Len(frames)].player)
    /\ LET r == minimax_child(Parent, act, player)
           node == [b |-> r.child, player |-> player]
       IN  /\ IF frames = << >>
              THEN /\ board' = r.curr.board
                   /\ throws' = r.curr.throws
                   /\ nturns' = r.curr.nturns
                   /\ frames' = <<node>>
              ELSE /\ UNCHANGED <<board, throws, nturns>>
                   /\ frames' = Append([frames EXCEPT ![Len(frames)].b = r.curr],
                                       node)
           /\ raised' = r.raised
    /\ call' = [op |-> "half_update",
                upper |-> IF player = "upper" THEN act ELSE NoAction,
                lower |-> IF player = "lower" THEN act ELSE NoAction]
    /\ UNCHANGED <<ret, mirror, agent, battleVars, hexVars, searchVars, root>>

\* Player.action returns: its copies are dropped.
Return ==
    /\ frames # << >>
    /\ frames' = << >>
    /\ call' = [op |-> "return", upper |-> NoAction, lower |-> NoAction]
    /\ UNCHANGED <<board, throws, nturns, raised, ret, mirror, agent,
                   battleVars, hexVars, searchVars, root>>

\* minimax goes one node deeper, acts[player] being the actions explored
\* for the player on curr_board.
SearchOver(acts) ==
    /\ raised = "none" /\ pc = "idle" /\ Len(frames) < SearchDepth
    /\ \E player \in Colours : \E act \in acts[player] :
            Simulate(act, player)

\* A turn of the game with generated actions.
Play ==
    /\ raised = "none" /\ frames = << >>
    /\ nturns < OpeningThrows + FreeTurns
    /\ \E u \in Generated(Self, "upper"), l \in Generated(Self, "lower") :
            Update(u, l)

\* A turn in which the caller hands in an action that is not available.
Misplay ==
    /\ raised = "none" /\ frames = << >>
    /\ nturns < OpeningThrows + FreeTurns
    /\ \E u \in Probes, l \in Probes :
            /\ invalid_side(Self, u, l) # "none"
            /\ Update(u, l)

\* One more node of the agent's search.
Search == SearchOver([player \in Colours |-> Generated(Parent, player)])

Next == Play \/ Misplay \/ Search \/ Return

Spec == Init /\ [][Next]_vars

----------------------------------------------------------------------------
(* The battle resolver on its own: every token list a hex can hold when    *)
(* it is resolved, and what _BATTLE returns for it.                        *)

\* Token lists of one hand, up to n tokens, owners in any order.
RECURSIVE OneHandStacks(_, _)
OneHandStacks(hand, n) ==
    IF n = 0 THEN {<< >>}
    ELSE LET shorter == OneHandStacks(hand, n - 1)
         IN  shorter \cup {Append(st, tok) : st \in shorter,
                                             tok \in {hand, upper(hand)}}

\* A hex up for battle holds what it held after its last battle (tokens of
\* one hand, or nothing), then upper's arriving token, then lower's.
BattleInputs ==
    {pre \o up \o lo :
        pre \in UNION {OneHandStacks(h, MaxStack) : h \in Hands},
        up \in {<< >>} \cup {<<upper(h)>> : h \in Hands},
        lo \in {<< >>} \cup {<<h>> : h \in Hands}}

InitBattle ==
    /\ Constructed
    /\ symbols \in BattleInputs
    /\ hex = <<0, 0>>
    /\ agent = "upper"

\* survivors, upper_defeated, lower_defeated = self._BATTLE(symbols)
Battle ==
    /\ call.op = "init"
    /\ LET res == BATTLE(symbols)
       IN  /\ survivors' = res[1]
           /\ ret' = <<res[2], res[3]>>
    /\ call' = [op |-> "_BATTLE", upper |-> NoAction, lower |-> NoAction]
    /\ UNCHANGED <<board, throws, nturns, raised, frames, mirror, agent,
                   symbols, hexVars, searchVars, root>>

NextBattle == Battle

SpecBattle == InitBattle /\ [][NextBattle]_vars

----------------------------------------------------------------------------
(* _ADJACENT on its own: every hex of the board *)

InitHex ==
    /\ Constructed
    /\ symbols = << >>
    /\ hex \in SET_HEXES
    /\ agent = "upper"

\* adjacent = self._ADJACENT(hex)
Adjacent ==
    /\ call.op = "init"
    /\ adjacent' = ADJACENT(hex)
    /\ call' = [op |-> "_ADJACENT", upper |-> NoAction, lower |-> NoAction]
    /\ UNCHANGED <<board, throws, nturns, raised, ret, frames, mirror, agent,
                   battleVars, hex, searchVars, root>>

NextHex == Adjacent

SpecHex == InitHex /\ [][NextHex]_vars

----------------------------------------------------------------------------
(* The game of the depth-first agent (oldman.py): the host, the agent's    *)
(* action() step by step, and minimax on the same game.                    *)

\* The Board the depth-first agent holds (self.game_in_head).
Own == IF agent = "upper" THEN Self ELSE mirror

\* The hand of the t-th throw on a hex where every throw beats the one
\* before it, so that one token is left.
Cycled(t) == CASE t % 3 = 0 -> "r" [] t % 3 = 1 -> "p" [] t % 3 = 2 -> "s"

\* The throws of the explored game: lower makes all its throws on a corner
\* of its first row and is left with scissors there; upper does the same
\* on a corner of its own, then puts paper two steps and rock one step away
\* from lower's corner.
ScriptThrow(colour, t) ==
    IF colour = "upper"
    THEN CASE t = 7 -> <<"THROW", "p", <<-3, 2>>>>
           [] t = 8 -> <<"THROW", "r", <<-3, 4>>>>
           [] OTHER -> <<"THROW", Cycled(t), <<HexRadius, 0 - HexRadius>>>>
    ELSE <<"THROW", Cycled(t), <<0 - HexRadius, HexRadius>>>>

\* Hexes the explored turns after the throws stay on.
PlayField == {<<-4, 4>>, <<-3, 4>>, <<-3, 3>>, <<-4, 3>>, <<-3, 2>>}

\* Hexes the explored draws of the search stay on.
DrawField == {<<-4, 4>>, <<-3, 4>>, <<-3, 3>>}

\* The actions of a side explored on Board b, its moves kept on field.
Scripted(b, colour, field) ==
    IF b.throws[colour] < MaxThrows
    THEN {ScriptThrow(colour, b.throws[colour])}
            \cap available_actions(b, colour)
    ELSE {a \in available_actions(b, colour) :
            a[2] \in field /\ a[3] \in field}

\* What the host plays.
Moved(b, colour) == Scripted(b, colour, PlayField)

\* What random.choices draws in the explored searches.
Drawn(b, colour) == Scripted(b, colour, DrawField)

Smaller(m, n) == IF m < n THEN m ELSE n

\* The lists of at most n different elements of S.
RECURSIVE Arrangements(_, _)
Arrangements(S, n) ==
    IF n = 0 THEN {<< >>}
    ELSE LET shorter == Arrangements(S, n - 1)
             Unused(s) == {e \in S : \A i \in DOMAIN s : s[i] # e}
         IN  shorter \cup
             UNION {{Append(s, a) : a \in Unused(s)} : s \in shorter}

\* The lists of at most n elements of S.
RECURSIVE Lists(_, _)
Lists(S, n) ==
    IF n = 0 THEN {<< >>}
    ELSE LET shorter == Lists(S, n - 1)
         IN  shorter \cup {Append(s, a) : s \in shorter, a \in S}

\* random.choices(all_act, k=min(10, len(all_act))) for the responding side:
\* the different responses of the sample in the order of their first draw.
\* A response drawn again changes nothing, its score is that of its first
\* draw.  With no action to draw from the sample is empty.
Samples(b, colour) ==
    LET k == sample_k(available_actions(b, colour))
    IN  IF k = 0 THEN {<< >>}
        ELSE Arrangements(Drawn(b, colour), Smaller(MaxSample, k)) \ {<< >>}

\* One iteration of the outer loop: a drawn own action, the sample of
\* responses, and the index random.choice takes in opponent_acts.
OneIteration(colour, b, score) ==
    {it \in [own : Drawn(b, colour), sample : Samples(b, opp(colour)),
             pick : 1 .. MaxSample] :
        \/ it.pick = 1
        \/ it.pick <= Len(inner_loop(colour, b, score, it.own, it.sample,
                                     loop_start).opponent_acts)}

\* The iterations the outer loop goes through: k draws, of which the
\* explored runs have at most MaxChildren.
Iterations(colour, b, score) ==
    LET k == sample_k(available_actions(b, colour))
    IN  IF k = 0 THEN {<< >>}
        ELSE Lists(OneIteration(colour, b, score), Smaller(MaxChildren, k))
                \ {<< >>}

\* The turns of the explored game.
ScriptTurns == MaxThrows

InitDfs ==
    /\ Constructed
    /\ symbols = << >>
    /\ hex = <<0, 0>>
    /\ agent \in Colours

\* The host tells both agents the turn.
Turn ==
    /\ raised = "none" /\ frames = << >>
    /\ pc \in {"idle", "returned"}
    /\ nturns < ScriptTurns + DfsFreeTurns
    /\ \E u \in Moved(Self, "upper"), l \in Moved(Self, "lower") :
            Update(u, l)

\* Player.action is called: the random opening, or the search begins with
\* stack = [(self.game_in_head, (), 0)].  The calls explored are those of
\* the turns of throws and of the turn after them.
Action ==
    /\ raised = "none" /\ frames = << >>
    /\ pc = "idle"
    /\ nturns <= ScriptTurns
    /\ IF in_opening(Own)
       THEN /\ \E a \in available_actions(Own, agent) : chosen' = a
            /\ pc' = "returned"
            /\ stack' = << >>
       ELSE /\ chosen' = NoAction
            /\ pc' = "search"
            /\ stack' = <<[node |-> Own, path |-> << >>, score |-> 0]>>
    /\ call' = [op |-> "action", upper |-> NoAction, lower |-> NoAction]
    /\ UNCHANGED <<board, throws, nturns, raised, ret, frames, mirror, agent,
                   battleVars, hexVars, maxmin, good_paths, infe, leaves,
                   root>>

\* stack += children_nodes, or the exception one_step_infe ended with.
Expanded(res) ==
    /\ stack' = SubSeq(stack, 1, Len(stack) - 1) \o res.children_nodes
    /\ infe' = res.trace
    /\ raised' = res.raised

\* stack.pop(-1) gives a node that is not a leaf:
\* stack += self.one_step_infe(parent_node, path, score)
Expand ==
    /\ raised = "none" /\ pc = "search" /\ stack # << >>
    /\ LET top == stack[Len(stack)]
       IN  /\ Len(top.path) < Steps * 2
           /\ \E its \in Iterations(agent, top.node, top.score) :
                Expanded(one_step_infe(agent, top.node, top.path,
                                       top.score, its))
    /\ call' = [op |-> "one_step_infe", upper |-> NoAction, lower |-> NoAction]
    /\ UNCHANGED <<board, throws, nturns, ret, frames, mirror, agent,
                   battleVars, hexVars, pc, maxmin, good_paths, chosen, leaves,
                   root>>

\* stack.pop(-1) gives a leaf.
Leaf ==
    /\ raised = "none" /\ pc = "search" /\ stack # << >>
    /\ LET top == stack[Len(stack)]
           r == leaf(maxmin, good_paths, top.path, top.score)
       IN  /\ Len(top.path) >= Steps * 2
           /\ maxmin' = r.maxmin
           /\ good_paths' = r.good_paths
           /\ leaves' = leaves \cup {<<top.path, top.score>>}
           /\ stack' = SubSeq(stack, 1, Len(stack) - 1)
    /\ infe' = << >>
    /\ call' = [op |-> "leaf", upper |-> NoAction, lower |-> NoAction]
    /\ UNCHANGED <<board, throws, nturns, raised, ret, frames, mirror, agent,
                   battleVars, hexVars, pc, chosen, root>>

\* The stack is empty: path_dec = random.choice(good_paths), and action()
\* returns path_dec[0] for upper, path_dec[1] for lower.  random.choice of
\* an empty list ends in IndexError.  The locals are gone afterwards.
Choose ==
    /\ raised = "none" /\ pc = "search" /\ stack = << >>
    /\ IF good_paths = << >>
       THEN /\ raised' = "IndexError"
            /\ chosen' = NoAction
            /\ pc' = "idle"
       ELSE /\ raised' = "none"
            /\ \E i \in DOMAIN good_paths :
                    chosen' = good_paths[i][IF agent = "upper" THEN 1 ELSE 2]
            /\ pc' = "returned"
    /\ maxmin' = << >>
    /\ good_paths' = << >>
    /\ leaves' = {}
    /\ infe' = << >>
    /\ call' = [op |-> "choice", upper |-> NoAction, lower |-> NoAction]
    /\ UNCHANGED <<board, throws, nturns, ret, frames, mirror, agent,
                   battleVars, hexVars, stack, root>>

\* One more node of minimax, on this game.
Ponder == SearchOver([player \in Colours |-> Drawn(Parent, player)])

NextDfs == Turn \/ Action \/ Expand \/ Leaf \/ Choose \/ Ponder \/ Return

SpecDfs == InitDfs /\ [][NextDfs]_vars

----------------------------------------------------------------------------
(* The game of the minimax agent (goodthrowtwodeep.py) with the same       *)
(* throws: the host, and the root call of minimax act by act.              *)

InitMinimax ==
    /\ Constructed
    /\ symbols = << >>
    /\ hex = <<0, 0>>
    /\ agent \in Colours

\* Player.action is called and minimax(self.board, 2, -inf, inf,
\* self.colour) comes to its loop: all_acts is listed, the THROWs are
\* pruned, acts is made.
Think ==
    /\ raised = "none" /\ frames = << >>
    /\ pc = "idle"
    /\ nturns < EarlyTurns \/ nturns >= ScriptTurns
    /\ \E acts \in candidates(Own, agent) : root' = root_start(acts)
    /\ pc' = "minimax"
    /\ chosen' = NoAction
    /\ call' = [op |-> "minimax", upper |-> NoAction, lower |-> NoAction]
    /\ UNCHANGED <<board, throws, nturns, raised, ret, frames, mirror, agent,
                   battleVars, hexVars, stack, maxmin, good_paths, infe,
                   leaves>>

\* The root's loop has taken act and the call for its child ended with loc.
Scored(act, child, replies, loc) ==
    /\ raised' = loc.raised
    /\ root' = IF loc.raised # "none" THEN root
               ELSE root_step(root, act, loc.min_score,
                              [child |-> child, acts |-> replies])

\* child = deepcopy(curr_board); child.half_update(act, player) gave r;
\* then minimax(child, 1, alpha, beta, opp[player]) with one of the lists
\* its acts can be.
Visit(act, r) ==
    /\ IF agent = "upper"
       THEN /\ board' = r.curr.board
            /\ throws' = r.curr.throws
            /\ nturns' = r.curr.nturns
            /\ UNCHANGED mirror
       ELSE /\ mirror' = r.curr
            /\ UNCHANGED <<board, throws, nturns>>
    /\ IF r.raised # "none"
       THEN raised' = r.raised /\ UNCHANGED root
       ELSE \E replies \in candidates(r.child, opp(agent)) :
                Scored(act, r.child, replies,
                       min_loop(agent, r.child, opp(agent), replies,
                                root.alpha, min_start(root.beta)))

\* One iteration of the loop over acts at the root.
Try ==
    /\ raised = "none" /\ pc = "minimax"
    /\ ~root.cut /\ Len(root.tried) < Len(root.acts)
    /\ Visit(root.acts[Len(root.tried) + 1],
             minimax_child(Own, root.acts[Len(root.tried) + 1], agent))
    /\ call' = [op |-> "child", upper |-> NoAction, lower |-> NoAction]
    /\ UNCHANGED <<ret, frames, agent, battleVars, hexVars, searchVars>>

\* The loop is over or broken: minimax returns max_score, best_move and
\* action() returns best_move.  The locals are gone afterwards.
Done ==
    /\ raised = "none" /\ pc = "minimax"
    /\ root.cut \/ Len(root.tried) = Len(root.acts)
    /\ chosen' = root.best_move
    /\ pc' = "returned"
    /\ root' = root_start(<< >>)
    /\ call' = [op |-> "best_move", upper |-> NoAction, lower |-> NoAction]
    /\ UNCHANGED <<board, throws, nturns, raised, ret, frames, mirror, agent,
                   battleVars, hexVars, stack, maxmin, good_paths, infe,
                   leaves>>

NextMinimax == Turn \/ Think \/ Try \/ Done

SpecMinimax == InitMinimax /\ [][NextMinimax]_vars

----------------------------------------------------------------------------
(* Claims *)

IsLegal(b, action, colour) == action \in available_actions(b, colour)

\* C1: Board.update called with an action yielded by available_actions for
\* upper and one yielded for lower, in a state reached by play from the empty
\* board, ends without raising anything.
C1_LegalUpdateNeverRaises ==
    [][(/\ call'.op = "update"
        /\ IsLegal(Self, call'.upper, "upper")
        /\ IsLegal(Self, call'.lower, "lower"))
       => raised' = "none"]_vars

\* C1 witness: a completed turn in which upper moved a token onto the hex
\* lower moved its own token away from.
C1_Witness ==
    /\ call.op = "update" /\ raised = "none"
    /\ call.upper[1] \in {"SLIDE", "SWING"}
    /\ call.lower[1] = "SLIDE"
    /\ call.upper[3] = call.lower[2]

\* C2 (as claimed): Board.update called with an action that is not
\* available to its side fails with the IllegalAction error and no other.
C2_IllegalActionRaised ==
    [][(/\ call'.op = "update"
        /\ ~(IsLegal(Self, call'.upper, "upper")
             /\ IsLegal(Self, call'.lower, "lower")))
       => raised' = "IllegalAction"]_vars

\* C3: a Board.update that fails leaves board, throws and nturns as they
\* were, also when upper's action was legal and only lower's was not.
C3_FailedUpdateChangesNothing ==
    [][(call'.op = "update" /\ raised' # "none")
       => (board' = board /\ throws' = throws /\ nturns' = nturns)]_vars

\* C3 witness: a failed update whose upper action was available, a throw
\* that would have changed the board, and whose lower action was not.
C3_Witness ==
    /\ call.op = "update" /\ raised # "none"
    /\ call.upper[1] = "THROW"
    /\ IsLegal(Self, call.upper, "upper")
    /\ ~IsLegal(Self, call.lower, "lower")

Yielded(b, c, kind) == {a \in available_actions(b, c) : a[1] = kind}

\* Every Board object alive: the authoritative one and the search copies.
Boards == {Self} \cup {frames[i].b : i \in DOMAIN frames}

\* 1 when the action is a throw, else 0.
ThrowOf(action) == IF action[1] = "THROW" THEN 1 ELSE 0

C4_Range ==
    \A b \in Boards : \A c \in Colours :
        b.throws[c] >= 0 /\ b.throws[c] <= 9

C4_Step ==
    /\ \A c \in Colours : throws'[c] >= throws[c]
    /\ (call'.op = "update" /\ raised' = "none")
        => /\ throws'["upper"] = throws["upper"] + ThrowOf(call'.upper)
           /\ throws'["lower"] = throws["lower"] + ThrowOf(call'.lower)
    /\ call'.op # "update" => throws' = throws
    /\ call'.op = "half_update"
        => LET child == frames'[Len(frames')]
               mover == child.player
               act == IF mover = "upper" THEN call'.upper ELSE call'.lower
           IN  /\ child.b.throws[mover] = Parent.throws[mover] + ThrowOf(act)
               /\ child.b.throws[opp(mover)] = Parent.throws[opp(mover)]

\* C4: on the authoritative Board under legal turns and on every search
\* copy advanced by half_update, throws[side] stays within 0..9, never
\* decreases, and grows by exactly 1 exactly when that side's action is a
\* THROW.
C4_ThrowsCounted == []C4_Range /\ [][C4_Step]_vars

\* C4 witness: a completed turn in which a side that has thrown 9 times
\* slid a token while the other side made its 9th throw.
C4_Witness ==
    /\ call.op = "update" /\ raised = "none"
    /\ \E c \in Colours :
        /\ throws[c] = 9 /\ throws[opp(c)] = 9
        /\ (IF c = "upper" THEN call.upper ELSE call.lower)[1] = "SLIDE"
        /\ (IF c = "upper" THEN call.lower ELSE call.upper)[1] = "THROW"

\* C5: with throws[side] = 9, available_actions(side) yields no THROW;
\* what it yields are SLIDE and SWING actions from hexes holding a token
\* of that side.
C5_NoThrowAtNine ==
    \A b \in Boards : \A c \in Colours :
        b.throws[c] = 9 =>
            \A a \in available_actions(b, c) :
                /\ a[1] \in {"SLIDE", "SWING"}
                /\ \E i \in DOMAIN b.board[a[2]] :
                        isplayer(c, b.board[a[2]][i])

\* C5 witness: a side has thrown 9 times and still has actions, a swing
\* among them.
C5_Witness ==
    \E c \in Colours :
        /\ throws[c] = 9
        /\ \E a \in available_actions(Self, c) : a[1] = "SWING"

\* The throw zone as the rule states it: rows r >= 4 - t for upper,
\* -r >= 4 - t for lower.
ZoneByRule(c, t) ==
    {x \in SET_HEXES :
        IF c = "upper" THEN x[1] >= 4 - t ELSE 0 - x[1] >= 4 - t}

\* C6: with throws[side] = t < 9 the THROW actions yielded are exactly
\* (symbol, hex) for the three symbols and the hexes of the zone; the zone
\* is one row at t = 0, one more row per throw, the whole board at t = 8.
C6_ThrowZone ==
    \A b \in Boards : \A c \in Colours :
        LET t == b.throws[c]
            thrown == {a \in available_actions(b, c) : a[1] = "THROW"}
        IN  t < 9 =>
            /\ thrown = {<<"THROW", s, x>> :
                            s \in {"r", "p", "s"}, x \in ZoneByRule(c, t)}
            /\ Cardinality({a[3][1] : a \in thrown}) = t + 1
            /\ (t = 0 => \A a \in thrown :
                            a[3][1] = (IF c = "upper" THEN 4 ELSE -4))
            /\ (t = 8 => {a[3] : a \in thrown} = SET_HEXES)

\* C6 witness: after a completed turn one side, 8 throws made, may throw
\* anywhere on the board while the other side has no throw left.
C6_Witness ==
    \E c \in Colours :
        /\ throws[c] = 8 /\ throws[opp(c)] = 9
        /\ call.op = "update" /\ raised = "none"
        /\ {a[3] : a \in Yielded(Self, c, "THROW")} = SET_HEXES

Holds(b, c, x) == \E i \in DOMAIN b.board[x] : isplayer(c, b.board[x][i])

\* Every swing over a pivot hex satisfying Pivot is yielded, and every
\* swing yielded has such a pivot.
SwingsAreOver(b, c, Pivot(_)) ==
    LET swings == Yielded(b, c, "SWING")
        held == {x \in SET_HEXES : Holds(b, c, x)}
    IN  /\ \A x \in held : \A y \in ADJACENT(x) : Pivot(y) =>
                \A z \in (ADJACENT(y) \ ADJACENT(x)) \ {x} :
                    <<"SWING", x, z>> \in swings
        /\ \A a \in swings :
            /\ a[2] \in held
            /\ \E y \in ADJACENT(a[2]) :
                /\ Pivot(y)
                /\ a[3] \in (ADJACENT(y) \ ADJACENT(a[2])) \ {a[2]}

\* C7 (as claimed): SWING(x, z) is yielded for every x holding a token of
\* the side, every y adjacent to x occupied by a token of either side and
\* every z in adjacent(y) minus adjacent(x) minus {x}, and every SWING
\* yielded has such a pivot.
C7_SwingOverAnyToken ==
    \A c \in Colours :
        LET AnyToken(y) == Self.board[y] # << >>
        IN  SwingsAreOver(Self, c, AnyToken)

\* C7 (amended): SWING(x, z) is yielded for every x holding a token of the
\* side, every y adjacent to x holding a token of the same side and every z
\* in adjacent(y) minus adjacent(x) minus {x}; every SWING yielded has such
\* a pivot, so z is never x and never adjacent to x.
C7_SwingOverOwnToken ==
    \A b \in Boards : \A c \in Colours :
        LET OwnToken(y) == Holds(b, c, y)
        IN  /\ SwingsAreOver(b, c, OwnToken)
            /\ \A a \in Yielded(b, c, "SWING") :
                    a[3] # a[2] /\ a[3] \notin ADJACENT(a[2])

\* C7 witness: a side is offered a swing while one of its tokens also has
\* a neighbour that holds only tokens of the other side.
C7_Witness ==
    \E c \in Colours :
        /\ Yielded(Self, c, "SWING") # {}
        /\ \E x \in SET_HEXES : \E y \in ADJACENT(x) :
            /\ Holds(Self, c, x)
            /\ Holds(Self, opp(c), y) /\ ~Holds(Self, c, y)
            /\ (ADJACENT(y) \ ADJACENT(x)) \ {x} # {}

HandsIn(s) == {lower(s[i]) : i \in DOMAIN s}

\* The hand that loses among two hands, by the rule: rock beats scissors,
\* paper beats rock, scissors beats paper.
LoserOf(hs) ==
    CASE hs = {"r", "s"} -> "s"
      [] hs = {"p", "r"} -> "r"
      [] hs = {"s", "p"} -> "p"

\* C8: from a list with exactly two hands _BATTLE removes exactly the
\* tokens of the hand the other one beats, whoever owns them, keeps the rest
\* in order, and returns per side (survivors) - (tokens before).
C8_TwoHands ==
    (call.op = "_BATTLE" /\ Cardinality(HandsIn(symbols)) = 2) =>
        LET loser == LoserOf(HandsIn(symbols))
            Kept(s) == lower(s) # loser
        IN  /\ survivors = SelectSeq(symbols, Kept)
            /\ ret[1] = CountIf(survivors, "upper") - CountIf(symbols, "upper")
            /\ ret[2] = CountIf(survivors, "lower") - CountIf(symbols, "lower")

\* C8 witness: a two-hand battle in which both sides lost a token and
\* tokens of both sides survived.
C8_Witness ==
    /\ call.op = "_BATTLE" /\ Cardinality(HandsIn(symbols)) = 2
    /\ ret[1] < 0 /\ ret[2] < 0
    /\ CountIf(survivors, "upper") > 0 /\ CountIf(survivors, "lower") > 0

\* C9: with all three hands present _BATTLE returns the empty list and
\* minus the number of upper tokens, minus the number of lower tokens; with
\* one hand it returns the list unchanged and (0, 0).
C9_ThreeHandsOrOne ==
    call.op = "_BATTLE" =>
        /\ Cardinality(HandsIn(symbols)) = 3 =>
            /\ survivors = << >>
            /\ ret = <<0 - CountIf(symbols, "upper"),
                       0 - CountIf(symbols, "lower")>>
        /\ Cardinality(HandsIn(symbols)) = 1 =>
            /\ survivors = symbols
            /\ ret = <<0, 0>>

\* C9 witness: a three-hand battle with more upper than lower tokens.
C9_Witness ==
    /\ call.op = "_BATTLE" /\ Cardinality(HandsIn(symbols)) = 3
    /\ CountIf(symbols, "upper") > CountIf(symbols, "lower")
    /\ CountIf(symbols, "lower") > 0

\* C10: after every completed update, and after every half_update on a
\* copy of such a state, each hex holds tokens of at most one hand.
C10_OneHandPerHex ==
    \A b \in Boards : \A x \in SET_HEXES :
        Cardinality(HandsIn(b.board[x])) <= 1

\* C10 witness: after a completed turn a hex holds tokens of both sides,
\* and a search copy advanced from it by a slide into an occupied hex exists.
C10_Witness ==
    /\ \E x \in SET_HEXES : Holds(Self, "upper", x) /\ Holds(Self, "lower", x)
    /\ frames # << >>
    /\ call.op = "half_update"
    /\ \E a \in {call.upper, call.lower} :
        a[1] = "SLIDE" /\ Self.board[a[3]] # << >>

\* The operations of the two agents' Player.action.
SearchOps == {"half_update", "return", "action", "one_step_infe", "leaf",
              "choice", "minimax", "child", "best_move"}

C12_Step ==
    /\ (call'.op = "update" /\ raised' = "none") => nturns' = nturns + 1
    /\ (call'.op = "update" /\ raised' # "none") => nturns' = nturns
    /\ call'.op # "update" => nturns' = nturns

\* C12: nturns is 0 on a new Board, grows by exactly 1 on every Board.update
\* that succeeds and by 0 on one that fails, and no other operation on the
\* authoritative Board (available_actions, Player.action) changes it.
C12_TurnsCounted == (call.op = "init" => nturns = 0) /\ [][C12_Step]_vars

\* C12 witness: after turns were played, an update has failed and nturns is
\* still the number of turns played before it.
C12_Witness ==
    /\ call.op = "update" /\ raised # "none"
    /\ nturns = OpeningThrows + 1

\* All tokens of a side on a board, stacked ones included.
TokensOf(bd, colour) ==
    {<<x, i>> \in SET_HEXES \X (1 .. MaxThrows + MaxThrows) :
        i \in DOMAIN bd[x] /\ isplayer(colour, bd[x][i])}

\* C14 (as claimed): eval_pos(board, side) takes off 2 for every token of
\* the other side on the board, each token of a stack counted and whichever
\* token is first on its hex; when the side has no token on the board the
\* score is minus twice the number of the other side's tokens.
C14_TwoPerOpponentToken ==
    \A b \in Boards : \A c \in Colours :
        LET e == eval_pos(b.board, c)
        IN  /\ e.whole = 0 - 2 * Cardinality(TokensOf(b.board, opp(c)))
            /\ TokensOf(b.board, c) = {} => e.roots = {}

\* Hexes at distance at least 1 from the boundary of the board.
Interior ==
    {x \in SET_HEXES :
        \A n \in {x[1], x[2], 0 - x[1] - x[2]} :
            n < HexRadius /\ n > 0 - HexRadius}

\* C15: for every hex of the board _ADJACENT returns hexes of the board
\* only, at most 6, each one of the six axial unit steps away; a hex at
\* distance at least 1 from the boundary has exactly 6; and y is adjacent
\* to x exactly when x is adjacent to y.
C15_Adjacent ==
    call.op = "_ADJACENT" =>
        /\ adjacent \subseteq SET_HEXES
        /\ Cardinality(adjacent) <= 6
        /\ \A y \in adjacent :
            <<y[1] - hex[1], y[2] - hex[2]>> \in
                {<<1, -1>>, <<1, 0>>, <<0, 1>>, <<-1, 1>>, <<-1, 0>>, <<0, -1>>}
        /\ hex \in Interior => Cardinality(adjacent) = 6
        /\ \A y \in SET_HEXES : y \in adjacent <=> hex \in ADJACENT(y)

\* C15 witness: _ADJACENT has returned the three neighbours of a corner.
C15_Witness ==
    /\ call.op = "_ADJACENT"
    /\ hex = <<HexRadius, 0 - HexRadius>>
    /\ Cardinality(adjacent) = 3

\* C16: an upper agent calls Board.update(player_action, opponent_action), a
\* lower agent Board.update(opponent_action, player_action), so that the
\* two agents of a game, told the same turns, hold equal Boards after every
\* turn.
C16_SameBoards == mirror = Self

\* C16 witness: a completed turn in which the two sides' actions differ in
\* kind, so that handing them over the wrong way round is rejected.
C16_Witness ==
    /\ call.op = "update" /\ raised = "none"
    /\ call.upper[1] = "THROW" /\ call.lower[1] = "SLIDE"
    /\ mirror.nturns = OpeningThrows + 1

\* The token an action of the side brings to its destination on board bd.
Arriving(bd, action, colour) ==
    LET s == IF action[1] = "THROW" THEN action[2] ELSE bd[action[2]][1]
    IN  IF colour = "upper" THEN upper(s) ELSE lower(s)

\* Rock beats scissors, paper beats rock, scissors beats paper.
Beats(a, b) ==
    <<lower(a), lower(b)>> \in {<<"r", "s">>, <<"p", "r">>, <<"s", "p">>}

\* A completed turn brought upper's token A and lower's token B to one hex
\* that was empty: the winner alone is left there, and the pair returned
\* has d for the side that lost its token and 0 for the other.
Met(d) ==
    (/\ call'.op = "update" /\ raised' = "none"
     /\ call'.upper[3] = call'.lower[3]
     /\ board[call'.upper[3]] = << >>)
    => LET x == call'.upper[3]
           A == Arriving(board, call'.upper, "upper")
           B == Arriving(board, call'.lower, "lower")
       IN  /\ Beats(A, B) => (board'[x] = <<A>> /\ ret' = <<0, d>>)
           /\ Beats(B, A) => (board'[x] = <<B>> /\ ret' = <<d, 0>>)

\* C11 (as claimed): when an upper token A and a lower token B arrive in
\* one turn on a hex that was empty and A beats B, the hex holds exactly
\* A and update returns (0, 1); when B beats A it holds exactly B and
\* update returns (1, 0).
C11_DefeatedCounted == [][Met(1)]_vars

\* C11 (amended): when an upper token A and a lower token B arrive in one
\* turn on a hex that was empty and A beats B, the hex holds exactly A and
\* update returns (0, -1); when B beats A it holds exactly B and update
\* returns (-1, 0): the pair holds the change of each side's token count.
C11_DeltasReturned == [][Met(-1)]_vars

\* C11 witness: upper's rock and lower's scissors slid onto the hex
\* <<-3, 3>>, empty until then, and the rock alone is left.
C11_Witness ==
    /\ call.op = "update" /\ raised = "none"
    /\ call.upper[1] = "SLIDE" /\ call.lower[1] = "SLIDE"
    /\ call.upper[3] = <<-3, 3>> /\ call.lower[3] = <<-3, 3>>
    /\ board[<<-3, 3>>] = <<"R">>
    /\ ret = <<0, -1>>

\* C13: no step of Player.action, of the minimax agent or of the
\* depth-first agent, changes the agent's own Board: every hex, both throw
\* counters and nturns are after the call what they were before it.
C13_ActionKeepsBoard ==
    [][call'.op \in SearchOps
       => (board' = board /\ throws' = throws /\ nturns' = nturns
           /\ mirror' = mirror)]_vars

\* C13 witness: the depth-first search has gone through simulated turns
\* from the position after the throws and action() has returned.
C13_Witness ==
    /\ call.op = "choice" /\ pc = "returned"
    /\ nturns = ScriptTurns
    /\ chosen[1] = "SLIDE"

TokenCount(b, colour) == Cardinality(TokensOf(b.board, colour))

\* C17 (as claimed): the score of a child of one_step_infe is its parent's
\* plus 1.5 for every token the other side lost in the simulated turn minus
\* 1 for every token the searching side lost (3 and 2 on doubled scores);
\* a turn in which only the other side lost tokens raises the score, one in
\* which only the searching side lost tokens lowers it.
C17_ScoreOfTurn ==
    [][(call'.op = "one_step_infe" /\ raised' = "none") =>
        LET top == stack[Len(stack)]
        IN  \A i \in Len(stack) .. Len(stack') :
            LET child == stack'[i]
                act(c) == child.path[Len(child.path)
                                      - (IF c = "upper" THEN 1 ELSE 0)]
                lost(c) == TokenCount(top.node, c) + ThrowOf(act(c))
                            - TokenCount(child.node, c)
            IN  /\ child.score = top.score + 3 * lost(opp(agent))
                                           - 2 * lost(agent)
                /\ (lost(opp(agent)) > 0 /\ lost(agent) = 0)
                        => child.score > top.score
                /\ (lost(agent) > 0 /\ lost(opp(agent)) = 0)
                        => child.score < top.score]_vars

\* A call of action() with at most last turns completed returns a random
\* legal action; with more turns completed it starts the search.
RandomUpTo(last) ==
    call'.op = "action" =>
        IF nturns <= last
        THEN pc' = "returned" /\ chosen' \in available_actions(Own, agent)
        ELSE pc' = "search" /\ chosen' = NoAction

\* C18 (as claimed): the depth-first agent's action() returns a random
\* legal action when fewer than 6 turns are completed (nturns in 0..5) and
\* runs the search from nturns = 6 on.
C18_SixRandomTurns == [][RandomUpTo(5)]_vars

\* C18 (amended): the depth-first agent's action() returns a random legal
\* action when at most 6 turns are completed (nturns in 0..6, the first 7
\* turns) and runs the search from the 8th turn (nturns >= 7) on.
C18_SevenRandomTurns == [][RandomUpTo(6)]_vars

\* C18 witness: with 6 turns completed action() has returned a random
\* action without searching.
C18_Witness ==
    /\ call.op = "action" /\ nturns = 6
    /\ pc = "returned" /\ chosen # NoAction

\* The index of the first least element of a list of scores.
FirstLeast(scores) ==
    CHOOSE i \in DOMAIN scores :
        /\ \A j \in DOMAIN scores : scores[i] <= scores[j]
        /\ \A j \in 1 .. i - 1 : scores[j] > scores[i]

\* Every iteration of the last one_step_infe kept the least score of its
\* sample, and random.choice picked among the responses Pool gives for it.
KeptFrom(Pool(_)) ==
    \A n \in DOMAIN infe :
        LET e == infe[n]
        IN  (e.sample # << >> /\ Len(e.scores) = Len(e.sample)) =>
            /\ e.min_onestep = <<e.scores[FirstLeast(e.scores)]>>
            /\ {e.pool[i] : i \in DOMAIN e.pool} = Pool(e)

\* C19 (as claimed): for each sampled own action the kept child pairs it
\* with a sampled response of least score, and every sampled response of
\* that score can be the one: random.choice picks among all of them.
C19_AnyLeastResponse ==
    LET Ties(e) == {e.sample[j] : j \in {k \in DOMAIN e.scores :
                                    <<e.scores[k]>> = e.min_onestep}}
    IN  KeptFrom(Ties)

\* C19 (amended): for each sampled own action the kept child pairs it with
\* a sampled response of least score, and of several responses of that
\* score always the first in the sample: random.choice picks from a list
\* of one.
C19_FirstLeastResponse ==
    /\ LET First(e) == {e.sample[FirstLeast(e.scores)]} IN KeptFrom(First)
    /\ \A n \in DOMAIN infe : Len(infe[n].pool) <= 1

\* C19 witness: an iteration whose two sampled responses have the same
\* score.
C19_Witness ==
    \E n \in DOMAIN infe :
        /\ Len(infe[n].sample) = 2
        /\ infe[n].scores[1] = infe[n].scores[2]
        /\ infe[n].pool = <<infe[n].sample[1]>>

\* C20 (as claimed): after the opening, when the agent's side has a legal
\* action, the depth-first action() returns normally; what it returns is
\* the agent's action of the first turn of a leaf path of length 4 whose
\* score is the greatest among the leaves reached, and is among
\* available_actions of its side in the authoritative state.
C20_SearchReturnsLegalBest ==
    [][(call'.op = "choice" /\ available_actions(Own, agent) # {}) =>
        /\ raised' = "none"
        /\ chosen' \in available_actions(Own, agent)
        /\ \E l \in leaves :
            /\ Len(l[1]) = 4
            /\ chosen' = l[1][IF agent = "upper" THEN 1 ELSE 2]
            /\ \A m \in leaves : m[2] <= l[2]]_vars

\* The action and the side of the last half_update.
Halved(c) ==
    IF c.upper # NoAction THEN <<c.upper, "upper">> ELSE <<c.lower, "lower">>

\* C22: no application of an action inside a search fails: every
\* half_update of minimax is given an action available_actions yielded for
\* the player on the Board it copies and finds a token of the player on
\* the source hex, and every update of one_step_infe on a copy passes
\* validation and ends without an exception.
C22_SearchNeverFails ==
    [][/\ call'.op = "half_update" =>
            LET act == Halved(call')[1]
                player == Halved(call')[2]
            IN  /\ act \in available_actions(Parent, player)
                /\ act[1] # "THROW" =>
                        \E i \in DOMAIN Parent.board[act[2]] :
                            isplayer(player, Parent.board[act[2]][i])
                /\ raised' = "none"
       /\ call'.op = "one_step_infe" => raised' = "none"]_vars

\* C22 witness: one_step_infe has simulated a second turn on a copy, and a
\* token was destroyed on the way there.
C22_Witness ==
    /\ call.op = "one_step_infe" /\ raised = "none"
    /\ stack # << >>
    /\ Len(stack[Len(stack)].path) = 4
    /\ \E c \in Colours :
            TokenCount(stack[Len(stack)].node, c) < TokenCount(Own, c)

\* C23: half_update(action, colour) changes no hex but the source and the
\* destination of the action, takes the moved token off the source without
\* a battle there, resolves the battle on the destination, adds 1 to
\* throws[colour] for a THROW and nothing otherwise, and leaves the other
\* side's throws and nturns as they were.
C23_HalfUpdateFrame ==
    [][(call'.op = "half_update" /\ raised' = "none") =>
        LET act == Halved(call')[1]
            colour == Halved(call')[2]
            before == Parent
            after == frames'[Len(frames')].b
            tok == Arriving(before.board, act, colour)
            moved == act[1] # "THROW"
            touched == IF moved THEN {act[2], act[3]} ELSE {act[3]}
            left == IF moved
                    THEN [before.board EXCEPT ![act[2]] = Remove(@, tok)]
                    ELSE before.board
        IN  /\ \A x \in SET_HEXES \ {act[3]} : after.board[x] = left[x]
            /\ \A x \in SET_HEXES \ touched :
                    after.board[x] = before.board[x]
            /\ after.board[act[3]] = BATTLE(Append(left[act[3]], tok))[1]
            /\ after.throws[colour] = before.throws[colour] + ThrowOf(act)
            /\ after.throws[opp(colour)] = before.throws[opp(colour)]
            /\ after.nturns = before.nturns]_vars

\* C23 witness: a half_update slid a token onto a hex where the battle
\* destroyed a token, on a copy of the Board.
C23_Witness ==
    /\ call.op = "half_update" /\ raised = "none"
    /\ Len(frames) = 1
    /\ Halved(call)[1][1] = "SLIDE"
    /\ \E c \in Colours : TokenCount(frames[1].b, c) < TokenCount(Self, c)

\* The places <<hex, index>> of the tokens on the board bd.
Slots(bd) ==
    UNION {{<<x, i>> : i \in DOMAIN bd[x]} :
            x \in {y \in SET_HEXES : bd[y] # << >>}}

\* How many times the token t lies on the board bd.
Copies(bd, t) ==
    Cardinality({sl \in Slots(bd) : bd[sl[1]][sl[2]] = t})

\* The tokens of a side on the board bd.
Owned(bd, c) ==
    Cardinality({sl \in Slots(bd) : isplayer(c, bd[sl[1]][sl[2]])})

\* A successful update keeps the count: each side's tokens afterwards are
\* those before, plus its throw, plus its delta, which is never positive;
\* before the battles every token is where it was or where its action took
\* it, with its owner and its hand.
C26_Step ==
    (call'.op = "update" /\ raised' = "none") =>
        LET st0 == [board |-> board, throws |-> throws,
                    battles |-> << >>, raised |-> "none"]
            st2 == apply_action(apply_action(st0, call'.upper, "upper"),
                                call'.lower, "lower")
            thrown(c) == IF c = "upper" THEN call'.upper ELSE call'.lower
            delta(c) == IF c = "upper" THEN ret'[1] ELSE ret'[2]
        IN  /\ \A c \in Colours :
                /\ delta(c) <= 0
                /\ Owned(board', c) =
                        Owned(board, c) + ThrowOf(thrown(c)) + delta(c)
                /\ throws'[c] = throws[c] + ThrowOf(thrown(c))
            /\ \A t \in {"R", "P", "S", "r", "p", "s"} :
                Copies(st2.board, t) = Copies(board, t)
                    + Cardinality({c \in Colours :
                        /\ thrown(c)[1] = "THROW"
                        /\ Arriving(board, thrown(c), c) = t})

\* C26: the tokens of a side on the board are its throws plus the sum of
\* its deltas returned so far, every delta being at most 0: none on the new
\* board, never more than the side's throws, and every update adds the
\* side's throw and its delta; a SLIDE or SWING moves its token as it is,
\* and a hex both actions go to is counted once.
C26_TokensConserved ==
    /\ call.op = "init" => \A c \in Colours : Owned(board, c) = 0
    /\ [](\A c \in Colours : Owned(board, c) <= throws[c])
    /\ [][C26_Step]_vars

\* C26 witness: both actions of a turn went to one hex and a token was
\* destroyed there.
C26_Witness ==
    /\ call.op = "update" /\ raised = "none"
    /\ call.upper[3] = call.lower[3]
    /\ ret # <<0, 0>>
    /\ \E c \in Colours : call[c][1] # "THROW"

\* C21: whenever the agent's side has a legal action, no step of the
\* minimax agent's action() ends with an exception and what it returns is
\* an action, not None, among available_actions of its side on the
\* agent's own Board, also when an action of the agent leaves the
\* opponent without a legal reply.
C21_MinimaxReturnsLegal ==
    [][/\ call'.op \in {"minimax", "child", "best_move"} => raised' = "none"
       /\ (call'.op = "best_move" /\ available_actions(Own, agent) # {}) =>
            /\ chosen' # NoAction
            /\ chosen' \in available_actions(Own, agent)]_vars

\* C21 witness: action() has returned an action after which the opponent,
\* who had a token, has no legal reply.
C21_Witness ==
    /\ call.op = "best_move" /\ chosen # NoAction
    /\ Owned(Own.board, opp(agent)) > 0
    /\ available_actions(half_update(Own, chosen, agent).b, opp(agent)) = {}

\* No THROW of the set scores more after its half_update, seen from the
\* player, than top.
NoneAbove(curr_board, player, all_throws, top) ==
    \A t \in all_throws :
        score_of(eval_pos(half_update(curr_board, t, player).b.board, player))
            <= top

\* acts holds the player's actions that are not THROWs, all of them, and of
\* the player's THROWs one, if there is any, than which none scores more.
Pruned(curr_board, player, acts) ==
    LET all_acts == available_actions(curr_board, player)
        all_throws == {a \in all_acts : a[1] = "THROW"}
        kept == {i \in DOMAIN acts : acts[i][1] = "THROW"}
    IN  /\ {acts[i] : i \in DOMAIN acts \ kept} = all_acts \ all_throws
        /\ Cardinality(kept) <= 1
        /\ all_throws # {} =>
            /\ Cardinality(kept) = 1
            /\ \A i \in kept :
                /\ acts[i] \in all_throws
                /\ NoneAbove(curr_board, player, all_throws,
                        score_of(eval_pos(
                            half_update(curr_board, acts[i], player).b.board,
                            player)))

\* C24: at every node of minimax with depth > 0 the list acts holds every
\* action of the mover that is not a THROW and at most one THROW; when the
\* mover has a THROW exactly one is kept, and the board after it scores,
\* for the mover, the most any of the mover's THROWs reaches.
C24_BestThrowKept ==
    pc = "minimax" =>
        /\ Pruned(Own, agent, root.acts)
        /\ root.node # << >> =>
            Pruned(root.node[1].child, opp(agent), root.node[1].acts)

\* C24 witness: a node whose mover has slides and THROWs, one of which
\* scores less than the one kept.
C24_Witness ==
    /\ pc = "minimax" /\ root.node # << >>
    /\ LET node == root.node[1]
           scores == throw_scores(node.child, opp(agent))
       IN  /\ \E i \in DOMAIN node.acts : node.acts[i][1] = "SLIDE"
           /\ \E i \in DOMAIN node.acts :
                /\ node.acts[i][1] = "THROW"
                /\ \E t \in DOMAIN scores : scores[t] < scores[node.acts[i]]

\* The least of a set of scores, inf when there is none.
Least(S) == IF S = {} THEN inf ELSE CHOOSE m \in S : \A n \in S : m <= n

\* The greatest of a set of scores, -inf when there is none.
Greatest(S) == IF S = {} THEN 0 - inf ELSE CHOOSE m \in S : \A n \in S : m >= n

\* The value without cutoffs of the child of the root the entry of tried is
\* about: the least leaf score, seen from the agent, over the child's acts,
\* its actions that are not THROWs and its best_throw.
PlainValue(entry) ==
    LET child == half_update(Own, entry.act, agent).b
        acts == {a \in available_actions(child, opp(agent)) : a[1] # "THROW"}
                    \cup {entry.best_throw[i] : i \in DOMAIN entry.best_throw}
    IN  Least({score_of(eval_pos(
                    half_update(child, a, opp(agent)).b.board, agent))
               : a \in acts})

\* What the root returns is what plain minimax finds over the same lists.
SameAsPlain(values) ==
    LET top == Greatest({values[i] : i \in DOMAIN values})
        first == CHOOSE i \in DOMAIN values :
                    /\ values[i] = top
                    /\ \A j \in 1 .. i - 1 : values[j] < top
    IN  /\ root.max_score = top
        /\ values # << >> => chosen' = root.acts[first]
        /\ Len(values) < Len(root.acts) => top = inf

\* C25: with the lists acts of all nodes given, the root of the depth-2
\* search returns, with its cutoffs, the value of plain minimax, the most
\* over the agent's acts of the least over the opponent's acts of the leaf
\* score seen from the agent, and the first act of the root's list that
\* reaches it; an act the root's loop did not come to could not score more.
C25_AlphaBetaIsMinimax ==
    [][call'.op = "best_move" =>
        /\ \A i \in DOMAIN root.tried : root.tried[i].act = root.acts[i]
        /\ SameAsPlain([i \in DOMAIN root.tried |->
                            PlainValue(root.tried[i])])]_vars

\* C25 witness: the loop at the root is over after several acts, and the
\* loop of a child was cut off with a score above the child's plain value.
C25_Witness ==
    /\ pc = "minimax"
    /\ Len(root.tried) = Len(root.acts) /\ Len(root.tried) > 1
    /\ \E i \in DOMAIN root.tried :
            root.tried[i].score > PlainValue(root.tried[i])

====
